---- MODULE Spec2Model ----
(***************************************************************************)
(* Canvas documents: the text-operation interpreter and the previews of    *)
(* client/src/utils/canvasOperations.ts, the CRUD routes over the          *)
(* CanvasDocument model and the expand/collapse animation of a canvas card.*)
(*                                                                         *)
(* A JavaScript string is modelled as a sequence of one-character strings, *)
(* so that search, replacement patterns and tag stripping are computed     *)
(* character by character as the runtime computes them.                    *)
(***************************************************************************)
EXTENDS Integers, Sequences, FiniteSets, TLC

VARIABLES
    html,          \* executeOperations: the html argument
    operations,    \* executeOperations: the operations argument
    result,        \* executeOperations: the returned string
    docs,          \* the CanvasDocument collection: set of stored documents
    nextId,        \* number of ObjectIds handed out so far
    now,           \* the clock the timestamps are taken from: it ticks at every write
    req,           \* the request handled last
    res,           \* the response sent to it
    maxLen,        \* truncateText, getContentPreview: the maxLength argument
    truncated,     \* truncateText(html, maxLength) as returned
    preview,       \* getContentPreview(html, maxLength) as returned
    expandedCanvasId,         \* atom expandedCanvasIdState
    animationPhase,           \* atom canvasAnimationPhaseState
    targetRect,               \* atom canvasTargetRectState
    inlineRect,               \* atom canvasInlineRectState
    collapseStartRect,        \* atom canvasCollapseStartRectState
    hasRenderedInitialFrame,  \* per card: the useState flag
    expandStartRectRef,       \* per card: expandStartRectRef.current
    expandTargetRectRef,      \* per card: expandTargetRectRef.current
    collapseTargetRectRef,    \* per card: collapseTargetRectRef.current
    shouldRender,             \* the side panel is rendered
    unmountTimer,             \* the panel's timeout that ends its rendering is pending
    observing,                \* the panel listens to resizes of its container
    frame,                    \* animation-frame callbacks of the running frame, still to run
    rafQueue                  \* animation-frame callbacks requested for the next frame

textVars == <<maxLen, truncated, preview>>

canvasVars ==
    <<expandedCanvasId, animationPhase, targetRect, inlineRect, collapseStartRect,
      hasRenderedInitialFrame, expandStartRectRef, expandTargetRectRef,
      collapseTargetRectRef, shouldRender, unmountTimer, observing, frame, rafQueue>>

vars == <<html, operations, result, docs, nextId, now, req, res, textVars, canvasVars>>

(***************************************************************************)
(* Bounds of the model.                                                    *)
(***************************************************************************)
MaxOps == 2      \* longest operation list handed to executeOperations
MaxDocs == 2     \* ObjectIds handed out by POST
MaxTime == 3     \* ticks of the clock: documents created or updated
MaxText == 3     \* longest text handed to truncateText and getContentPreview
MaxPreview == 2  \* largest maxLength handed to them
MaxPending == 2  \* animation-frame callbacks pending when a user event is taken

(***************************************************************************)
(* Strings.                                                                *)
(***************************************************************************)
Empty == <<>>

\* String.prototype.indexOf(search): the first 1-based position of search in
\* str, 0 when it does not occur. The empty string occurs at position 1.
IndexOf(str, search) ==
    LET n == Len(search)
        hits == {i \in 1..(Len(str) - n + 1) : SubSeq(str, i, i + n - 1) = search}
    IN IF hits = {} THEN 0 ELSE CHOOSE i \in hits : \A j \in hits : i <= j

Includes(str, search) == IndexOf(str, search) # 0

\* String.prototype.trim(): only the space is whitespace in the model's alphabet.
RECURSIVE TrimStart(_)
TrimStart(s) ==
    IF s # Empty /\ Head(s) = " " THEN TrimStart(Tail(s)) ELSE s

RECURSIVE TrimEnd(_)
TrimEnd(s) ==
    IF s # Empty /\ s[Len(s)] = " " THEN TrimEnd(SubSeq(s, 1, Len(s) - 1)) ELSE s

Trim(s) == TrimEnd(TrimStart(s))

\* GetSubstitution of the language standard for a string pattern (no capture
\* groups): $$ is a dollar sign, $& the matched text, $` the text before the
\* match, $' the text after it; every other character stands for itself.
RECURSIVE GetSubstitution(_, _, _, _)
GetSubstitution(matched, str, position, replacement) ==
    IF replacement = Empty THEN Empty
    ELSE IF Len(replacement) >= 2 /\ Head(replacement) = "$"
         THEN LET c == replacement[2]
                  rest == SubSeq(replacement, 3, Len(replacement))
              IN CASE c = "$" -> <<"$">> \o GetSubstitution(matched, str, position, rest)
                   [] c = "&" -> matched \o GetSubstitution(matched, str, position, rest)
                   [] c = "`" -> SubSeq(str, 1, position - 1)
                                    \o GetSubstitution(matched, str, position, rest)
                   [] c = "'" -> SubSeq(str, position + Len(matched), Len(str))
                                    \o GetSubstitution(matched, str, position, rest)
                   [] OTHER -> <<"$">> \o GetSubstitution(matched, str, position,
                                                         Tail(replacement))
         ELSE <<Head(replacement)>> \o GetSubstitution(matched, str, position,
                                                      Tail(replacement))

\* String.prototype.replace(search, replacement) with two strings: the first
\* occurrence of search is replaced by the substitution of replacement.
StringReplace(str, search, replacement) ==
    LET pos == IndexOf(str, search)
    IN IF pos = 0 THEN str
       ELSE SubSeq(str, 1, pos - 1)
            \o GetSubstitution(search, str, pos, replacement)
            \o SubSeq(str, pos + Len(search), Len(str))

(***************************************************************************)
(* The text-operation interpreter.                                         *)
(***************************************************************************)
FormatCommand == {"bold", "italic", "underline", "setColor", "setHighlight", "setTextAlign"}

\* A template literal prints an undefined value as the word undefined.
Undefined == <<"u", "n", "d", "e", "f", "i", "n", "e", "d">>
Interpolate(hasValue, value) == IF hasValue THEN value ELSE Undefined

\* A string is truthy when it is defined and not empty.
Truthy(hasValue, value) == hasValue /\ value # Empty

Wrapper(search, command, hasValue, value) ==
    CASE command = "bold" -> <<"<", "s", "t", "r", "o", "n", "g", ">">> \o search \o <<"<", "/", "s", "t", "r", "o", "n", "g", ">">>
      [] command = "italic" -> <<"<", "e", "m", ">">> \o search \o <<"<", "/", "e", "m", ">">>
      [] command = "underline" -> <<"<", "u", ">">> \o search \o <<"<", "/", "u", ">">>
      [] command = "setColor" ->
            <<"<", "s", "p", "a", "n", " ", "s", "t", "y", "l", "e", "=", "\"", "c", "o", "l", "o", "r", ":">>
            \o Interpolate(hasValue, value) \o <<"\"", ">">> \o search \o <<"<", "/", "s", "p", "a", "n", ">">>
      [] command = "setHighlight" ->
            <<"<", "m", "a", "r", "k", " ", "s", "t", "y", "l", "e", "=", "\"", "b", "a", "c", "k", "g", "r", "o", "u", "n", "d", "-", "c", "o", "l", "o", "r", ":">>
            \o Interpolate(hasValue, value) \o <<"\"", ">">> \o search \o <<"<", "/", "m", "a", "r", "k", ">">>
      [] command = "setTextAlign" -> search
      [] OTHER -> Empty

TextAlignWrapper(search, value) ==
    <<"<", "p", " ", "s", "t", "y", "l", "e", "=", "\"", "t", "e", "x", "t", "-", "a", "l", "i", "g", "n", ":">>
    \o value \o <<"\"", ">">> \o search \o <<"<", "/", "p", ">">>

applyFormat(content, search, command, hasValue, value) ==
    IF command = "setTextAlign" /\ Truthy(hasValue, value)
    THEN StringReplace(content, search, TextAlignWrapper(search, value))
    ELSE LET w == Wrapper(search, command, hasValue, value)
         IN StringReplace(content, search, IF w # Empty THEN w ELSE search)

\* A loop body whose rewrite branch adds to the content instead of replacing it.
ApplyOperationRewriteAppends(content, op) ==
    IF op.type = "rewrite" THEN content \o op.content
    ELSE IF op.type = "replace" THEN StringReplace(content, op.search, op.replace)
    ELSE IF op.type = "format"
         THEN applyFormat(content, op.search, op.command, op.hasValue, op.value)
    ELSE content

\* The body of the loop of executeOperations: one operation applied to the
\* content built so far.
ApplyOperation(content, op) ==
    IF op.type = "rewrite" THEN op.content
    ELSE IF op.type = "replace" THEN StringReplace(content, op.search, op.replace)
    ELSE IF op.type = "format"
         THEN applyFormat(content, op.search, op.command, op.hasValue, op.value)
    ELSE content

\* A loop that walks the list from its end.
RECURSIVE executeOperationsReversed(_, _)
executeOperationsReversed(content, ops) ==
    IF ops = <<>> THEN content
    ELSE ApplyOperation(executeOperationsReversed(content, Tail(ops)), Head(ops))

\* let result = html; for (const op of operations) {...}; return result
RECURSIVE executeOperations(_, _)
executeOperations(content, ops) ==
    IF ops = <<>> THEN content
    ELSE executeOperations(ApplyOperation(content, Head(ops)), Tail(ops))

\* replace(/<[^>]*>/g, ''): from each "<" that has a ">" after it, the text up
\* to the first such ">" is removed.
RECURSIVE RemoveTags(_)
RemoveTags(s) ==
    LET lt == IndexOf(s, <<"<">>)
        after == SubSeq(s, lt + 1, Len(s))
        gt == IndexOf(after, <<">">>)
    IN IF lt = 0 \/ gt = 0 THEN s
       ELSE SubSeq(s, 1, lt - 1) \o RemoveTags(SubSeq(after, gt + 1, Len(after)))

stripHtmlTags(content) == Trim(RemoveTags(content))

\* truncateText(text, maxLength): the text itself when it is short enough,
\* otherwise its first maxLength characters followed by '...'.
truncateText(text, maxLength) ==
    IF Len(text) <= maxLength
    THEN text
    ELSE SubSeq(text, 1, maxLength) \o <<".", ".", ".">>

\* getContentPreview(html, maxLength)
getContentPreview(content, maxLength) ==
    LET plainText == stripHtmlTags(content)
    IN truncateText(plainText, maxLength)

(***************************************************************************)
(* Inputs of the interpreter.                                              *)
(***************************************************************************)
Htmls ==
    { <<"<", "p", ">", "a", " ", "p", "<", "/", "p", ">">>,
      <<"a", "$", "$", "a">>,
      <<" ", "p", "a", " ">> }

RewriteOps ==
    { [type |-> "rewrite", content |-> c] : c \in {<<"a", "p">>, Empty} }

ReplaceOps ==
    { [type |-> "replace", search |-> s, replace |-> r] :
        s \in {<<"a">>, <<"p">>},
        r \in {<<"p">>, <<"$", "&", "$", "&">>, <<"$", "$">>, <<"<", "u", ">", "a", "<", "/", "u", ">">>} }

FormatOps ==
    { [type |-> "format", search |-> <<"p">>, command |-> c, hasValue |-> h,
       value |-> IF h THEN <<"r">> ELSE Empty] : c \in FormatCommand, h \in BOOLEAN }
    \cup
    { [type |-> "format", search |-> <<"$", "$">>, command |-> "bold",
       hasValue |-> FALSE, value |-> Empty],
      [type |-> "format", search |-> <<"p">>, command |-> "setTextAlign",
       hasValue |-> TRUE, value |-> Empty] }

(***************************************************************************)
(* The interpreter as a state machine: an edit hands executeOperations the *)
(* original html and the list of operations issued so far.                 *)
(***************************************************************************)
Rewrite ==
    \E op \in RewriteOps :
        /\ Len(operations) < MaxOps
        /\ operations' = Append(operations, op)
        /\ result' = executeOperations(html, operations')
        /\ UNCHANGED <<html, docs, nextId, now, req, res, textVars, canvasVars>>

Replace ==
    \E op \in ReplaceOps :
        /\ Len(operations) < MaxOps
        /\ operations' = Append(operations, op)
        /\ result' = executeOperations(html, operations')
        /\ UNCHANGED <<html, docs, nextId, now, req, res, textVars, canvasVars>>

Format ==
    \E op \in FormatOps :
        /\ Len(operations) < MaxOps
        /\ operations' = Append(operations, op)
        /\ result' = executeOperations(html, operations')
        /\ UNCHANGED <<html, docs, nextId, now, req, res, textVars, canvasVars>>

(***************************************************************************)
(* The CanvasDocument collection and its schema.                           *)
(***************************************************************************)
Users == {"u1", "u2"}

\* ObjectIds are handed out in order: 1, 2, ...  The path segment 0 stands for
\* a string that is no ObjectId.
IsObjectId(id) == id >= 1
RequestIds == 0..MaxDocs

ConversationIds == {"c1", "c2"}

\* The string paths of the schema that are declared required. The required
\* validator of a string path rejects the empty string.
RequiredStrings == {"conversationId", "messageId", "title", "content"}

ValidationError(documentData) ==
    \E f \in RequiredStrings : documentData[f] = ""

\* The query { _id: id, ... } cannot be cast when id is no ObjectId.
CastError(id) == ~IsObjectId(id)

\* Document.create: the stored document, with its _id and its timestamps.
NewDocument(documentData, id, time) ==
    [id |-> id,
     user |-> documentData.user,
     conversationId |-> documentData.conversationId,
     messageId |-> documentData.messageId,
     title |-> documentData.title,
     content |-> documentData.content,
     createdAt |-> time,
     updatedAt |-> time]

\* findOneAndUpdate: the paths of the update are set, updatedAt is stamped.
UpdatedDocument(d, updateData, time) ==
    [f \in DOMAIN d |->
        IF f \in DOMAIN updateData THEN updateData[f]
        ELSE IF f = "updatedAt" THEN time
        ELSE d[f]]

\* The value of a query for one document: the set holding it, empty for null.
TheDocument(found) == CHOOSE d \in found : TRUE

\* .sort({ createdAt: 1 }): the oldest first.
RECURSIVE SortByCreatedAtAsc(_)
SortByCreatedAtAsc(S) ==
    IF S = {} THEN <<>>
    ELSE LET d == CHOOSE x \in S : \A y \in S : x.createdAt <= y.createdAt
         IN <<d>> \o SortByCreatedAtAsc(S \ {d})

\* .sort({ createdAt: -1 })
RECURSIVE SortByCreatedAtDesc(_)
SortByCreatedAtDesc(S) ==
    IF S = {} THEN <<>>
    ELSE LET d == CHOOSE x \in S : \A y \in S : y.createdAt <= x.createdAt
         IN <<d>> \o SortByCreatedAtDesc(S \ {d})

(***************************************************************************)
(* api/models/CanvasDocument.js                                            *)
(***************************************************************************)
\* A lookup by _id alone.
getCanvasDocumentByIdOfAnyUser(id, userId) ==
    {d \in docs : d.id = id}

getCanvasDocumentById(id, userId) ==
    {d \in docs : d.id = id /\ d.user = userId}

getCanvasDocumentsByConvo(conversationId, userId) ==
    SortByCreatedAtDesc({d \in docs : d.conversationId = conversationId
                                      /\ d.user = userId})

\* The documents the update matches: { _id: id, user: userId }.
updateCanvasDocument(id, userId) ==
    {d \in docs : d.id = id /\ d.user = userId}

\* A deleteMany whose query leaves the conversation out.
deleteCanvasDocumentsOfUser(userId, conversationId) ==
    {d \in docs : d.user = userId}

\* The documents deleteMany removes.
deleteCanvasDocuments(userId, conversationId) ==
    {d \in docs : d.user = userId
                  /\ (conversationId # "" => d.conversationId = conversationId)}

deleteCanvasDocumentById(id, userId) ==
    {d \in docs : d.id = id /\ d.user = userId}

(***************************************************************************)
(* Requests. A body is a record holding the fields the request sent.       *)
(***************************************************************************)
NoFields == [f \in {} |-> ""]

\* body.f === undefined
IsUndefined(body, f) == f \notin DOMAIN body

\* !body.f
Falsy(body, f) == f \notin DOMAIN body \/ body[f] = ""

\* body.f || ''
OrEmpty(body, f) == IF f \in DOMAIN body THEN body[f] ELSE ""

PostBodies ==
    { [title |-> "T1", content |-> "C1", conversationId |-> c, messageId |-> "m1"] :
        c \in ConversationIds }
    \cup
    { [title |-> "T1", content |-> "C1", conversationId |-> "c1"],
      [title |-> "T1", content |-> "C1", messageId |-> "m1"],
      [title |-> "T1", content |-> "C1"],
      [content |-> "C1", conversationId |-> "c1", messageId |-> "m1"],
      [title |-> "", content |-> "C1", conversationId |-> "c1", messageId |-> "m1"],
      [title |-> "T1", conversationId |-> "c1", messageId |-> "m1"],
      [title |-> "T1", content |-> "", conversationId |-> "c1", messageId |-> "m1"] }

PutBodies ==
    { NoFields,
      [title |-> ""],
      [content |-> "C2", user |-> "u2", conversationId |-> "c2"] }

\* The whole body handed on as the update.
UpdateDataWholeBody(body) == body

\* const updateData = {}; if (title !== undefined) ...; if (content !== undefined) ...
UpdateData(body) ==
    [f \in (DOMAIN body \cap {"title", "content"}) |-> body[f]]

InternalServerError == [status |-> 500, body |-> [error |-> "Internal server error"]]
DocumentNotFound == [status |-> 404, body |-> [error |-> "Document not found"]]

(***************************************************************************)
(* The routes. Every request is authenticated: req.user.id is its user.    *)
(***************************************************************************)
GetByConversation ==
    \E u \in Users, c \in ConversationIds :
        /\ req' = [route |-> "GET /conversation/:conversationId", user |-> u,
                   conversationId |-> c]
        /\ res' = [status |-> 200,
                   body |-> [documents |-> getCanvasDocumentsByConvo(c, u)]]
        /\ UNCHANGED <<docs, nextId, now, html, operations, result, textVars, canvasVars>>

GetById ==
    \E u \in Users, id \in RequestIds :
        /\ req' = [route |-> "GET /:id", user |-> u, id |-> id]
        /\ res' = IF CastError(id) THEN InternalServerError
                  ELSE LET document == getCanvasDocumentById(id, u)
                       IN IF document # {}
                          THEN [status |-> 200, body |-> TheDocument(document)]
                          ELSE DocumentNotFound
        /\ UNCHANGED <<docs, nextId, now, html, operations, result, textVars, canvasVars>>

Post ==
    \E u \in Users, body \in PostBodies :
        LET documentData == [title |-> OrEmpty(body, "title"),
                             content |-> OrEmpty(body, "content"),
                             conversationId |-> OrEmpty(body, "conversationId"),
                             messageId |-> OrEmpty(body, "messageId"),
                             user |-> u]
        IN /\ req' = [route |-> "POST /", user |-> u, body |-> body]
           /\ IF Falsy(body, "title") \/ Falsy(body, "content")
              THEN /\ res' = [status |-> 400,
                              body |-> [error |-> "Title and content are required"]]
                   /\ UNCHANGED <<docs, nextId, now>>
              ELSE IF ValidationError(documentData)
              THEN /\ res' = InternalServerError
                   /\ UNCHANGED <<docs, nextId, now>>
              ELSE /\ nextId < MaxDocs
                   /\ now < MaxTime
                   /\ nextId' = nextId + 1
                   /\ now' = now + 1
                   /\ LET document == NewDocument(documentData, nextId', now')
                      IN /\ docs' = docs \cup {document}
                         /\ res' = [status |-> 201, body |-> document]
           /\ UNCHANGED <<html, operations, result, textVars, canvasVars>>

Put ==
    \E u \in Users, id \in RequestIds, body \in PutBodies :
        /\ req' = [route |-> "PUT /:id", user |-> u, id |-> id, body |-> body]
        /\ IF CastError(id)
           THEN /\ res' = InternalServerError
                /\ UNCHANGED <<docs, now>>
           ELSE LET matched == updateCanvasDocument(id, u)
                IN IF matched # {}
                   THEN /\ now < MaxTime
                        /\ now' = now + 1
                        /\ LET document == UpdatedDocument(TheDocument(matched),
                                                           UpdateData(body), now')
                           IN /\ docs' = (docs \ matched) \cup {document}
                              /\ res' = [status |-> 200, body |-> document]
                   ELSE /\ res' = DocumentNotFound
                        /\ UNCHANGED <<docs, now>>
        /\ UNCHANGED <<nextId, html, operations, result, textVars, canvasVars>>

DeleteById ==
    \E u \in Users, id \in RequestIds :
        /\ req' = [route |-> "DELETE /:id", user |-> u, id |-> id]
        /\ IF CastError(id)
           THEN /\ res' = InternalServerError
                /\ UNCHANGED docs
           ELSE LET document == deleteCanvasDocumentById(id, u)
                IN /\ docs' = docs \ document
                   /\ res' = IF document # {}
                             THEN [status |-> 200,
                                   body |-> [message |-> "Document deleted successfully"]]
                             ELSE DocumentNotFound
        /\ UNCHANGED <<nextId, now, html, operations, result, textVars, canvasVars>>

DeleteByConversation ==
    \E u \in Users, c \in ConversationIds :
        LET deleted == deleteCanvasDocuments(u, c)
        IN /\ req' = [route |-> "DELETE /conversation/:conversationId", user |-> u,
                      conversationId |-> c]
           /\ docs' = docs \ deleted
           /\ res' = [status |-> 200,
                      body |-> [message |-> "Documents deleted successfully",
                                deletedCount |-> Cardinality(deleted)]]
           /\ UNCHANGED <<nextId, now, html, operations, result, textVars, canvasVars>>

\* No preview has been asked for.
InitText ==
    /\ maxLen = 0
    /\ truncated = Empty
    /\ preview = Empty

Null == "null"

\* The canvas documents of the conversation: each is rendered by one
\* CanvasDocumentView.
CanvasIds == {"doc1", "doc2"}

\* The atoms at their defaults, every card as mounted, the side panel not
\* rendered, no callback pending.
InitCanvas ==
    /\ expandedCanvasId = Null
    /\ animationPhase = "idle"
    /\ targetRect = Null
    /\ inlineRect = Null
    /\ collapseStartRect = Null
    /\ hasRenderedInitialFrame = [d \in CanvasIds |-> FALSE]
    /\ expandStartRectRef = [d \in CanvasIds |-> Null]
    /\ expandTargetRectRef = [d \in CanvasIds |-> Null]
    /\ collapseTargetRectRef = [d \in CanvasIds |-> Null]
    /\ shouldRender = FALSE
    /\ unmountTimer = FALSE
    /\ observing = FALSE
    /\ frame = <<>>
    /\ rafQueue = <<>>

InitApi ==
    /\ docs = {}
    /\ nextId = 0
    /\ now = 0
    /\ req = [route |-> "none"]
    /\ res = [status |-> 0]

InitOps ==
    /\ html \in Htmls
    /\ operations = <<>>
    /\ result = executeOperations(html, operations)
    /\ InitApi
    /\ InitText
    /\ InitCanvas

NextOps == Rewrite \/ Replace \/ Format

SpecOps == InitOps /\ [][NextOps]_vars

(***************************************************************************)
(* Claims about the interpreter.                                           *)
(***************************************************************************)
Prefix(ops, k) == SubSeq(ops, 1, k)
Suffix(ops, k) == SubSeq(ops, k + 1, Len(ops))

\* The content an operation of the list is applied to.
ContentBefore(i) == executeOperations(html, Prefix(operations, i - 1))

\* C2: executeOperations applies the operations in list order, each to the
\* result of the previous one, starting from html: the empty list returns html
\* unchanged, the last operation is applied to the result of the ones before
\* it, and executing a ++ b is executing a and then b on its result, for every
\* split of the list into a and b.
C2_InOrder ==
    /\ executeOperations(html, <<>>) = html
    /\ operations # <<>> =>
          result = ApplyOperation(ContentBefore(Len(operations)),
                                  operations[Len(operations)])
    /\ \A k \in 0..Len(operations) :
          result = executeOperations(executeOperations(html, Prefix(operations, k)),
                                     Suffix(operations, k))

\* Two operations that do not commute have been executed.
C2_Witness ==
    /\ Len(operations) = 2
    /\ operations[1].type = "replace"
    /\ operations[2].type = "format"
    /\ ContentBefore(2) # html
    /\ result # ContentBefore(2)
    /\ result # executeOperations(html, <<operations[2], operations[1]>>)
    /\ result # html

\* The text a string replacement is specified to produce: the first occurrence
\* of search replaced by the given text, the rest of the content kept.
FirstOccurrenceReplaced(content, search, text) ==
    LET pos == IndexOf(content, search)
    IN SubSeq(content, 1, pos - 1) \o text
       \o SubSeq(content, pos + Len(search), Len(content))

\* C3: a replace operation whose search text occurs in the current content
\* yields the content with the first occurrence of search replaced by exactly
\* the replace text, character for character, the rest unchanged.
C3_ReplaceIsLiteral ==
    \A i \in 1..Len(operations) :
        LET op == operations[i]
            cur == ContentBefore(i)
        IN (op.type = "replace" /\ Includes(cur, op.search)) =>
              executeOperations(cur, <<op>>)
                 = FirstOccurrenceReplaced(cur, op.search, op.replace)

\* C4: a format operation does not change the plain text of the content.
C4_FormatKeepsText ==
    \A i \in 1..Len(operations) :
        LET op == operations[i]
            cur == ContentBefore(i)
        IN op.type = "format" =>
              stripHtmlTags(executeOperations(cur, <<op>>)) = stripHtmlTags(cur)

\* The markup the commands are documented to produce around the search text.
DocumentedWrapper(search, command, value) ==
    IF command = "setTextAlign" THEN TextAlignWrapper(search, value)
    ELSE Wrapper(search, command, TRUE, value)

\* C5: a format operation wraps the first occurrence of the search text in the
\* tag of its command, the wrapped text being the search text character for
\* character, and changes nothing else. Stated for the operations that give
\* the value their command prints (bold, italic and underline print none).
C5_FormatWraps ==
    \A i \in 1..Len(operations) :
        LET op == operations[i]
            cur == ContentBefore(i)
        IN (/\ op.type = "format"
            /\ Includes(cur, op.search)
            /\ (op.hasValue \/ op.command \in {"bold", "italic", "underline"})) =>
              executeOperations(cur, <<op>>)
                 = FirstOccurrenceReplaced(cur, op.search,
                        DocumentedWrapper(op.search, op.command, op.value))

AllOps == RewriteOps \cup ReplaceOps \cup FormatOps

Rewrites(ops) == {i \in 1..Len(ops) : ops[i].type = "rewrite"}

LastRewrite(ops) == CHOOSE k \in Rewrites(ops) : \A j \in Rewrites(ops) : j <= k

\* C6: when the list holds a rewrite, the result is that of executing the
\* operations after the last rewrite on its content; it is the same for every
\* original html and for every operation put in place of one before the last
\* rewrite.
C6_RewriteReplacesAll ==
    Rewrites(operations) # {} =>
        LET k == LastRewrite(operations)
        IN /\ result = executeOperations(operations[k].content, Suffix(operations, k))
           /\ \A h \in Htmls : executeOperations(h, operations) = result
           /\ \A j \in 1..(k - 1) : \A op \in AllOps :
                 executeOperations(html, [operations EXCEPT ![j] = op]) = result

\* A rewrite has been executed after an operation that had changed the html.
C6_Witness ==
    /\ Len(operations) = 2
    /\ operations[1].type # "rewrite"
    /\ operations[2].type = "rewrite"
    /\ ContentBefore(2) # html
    /\ result = operations[2].content
    /\ result # Empty

InitCrud ==
    /\ html = Empty
    /\ operations = <<>>
    /\ result = Empty
    /\ InitApi
    /\ InitText
    /\ InitCanvas

NextCrud ==
    \/ GetByConversation
    \/ GetById
    \/ Post
    \/ Put
    \/ DeleteById
    \/ DeleteByConversation

SpecCrud == InitCrud /\ [][NextCrud]_vars

(***************************************************************************)
(* Claims about the routes. A step of SpecCrud handles the request req'    *)
(* on the collection docs, answers res' and leaves the collection docs'.   *)
(***************************************************************************)
IdRoutes == {"GET /:id", "PUT /:id", "DELETE /:id"}
DocumentRoutes == {"GET /:id", "PUT /:id", "POST /"}

OwnedBy(S, u) == {d \in S : d.user = u}
OwnedByOthers(S, u) == {d \in S : d.user # u}

\* C1: a request of user U never returns, modifies or deletes a document of
\* another user; GET, PUT and DELETE /:id on a document owned by someone else
\* answer 404 and leave it unchanged.
C1_UserIsolation ==
    [][ LET u == req'.user
        IN /\ OwnedByOthers(docs', u) = OwnedByOthers(docs, u)
           /\ (req'.route \in DocumentRoutes /\ res'.status \in {200, 201}) =>
                 res'.body.user = u
           /\ req'.route = "GET /conversation/:conversationId" =>
                 \A i \in 1..Len(res'.body.documents) :
                     res'.body.documents[i].user = u
           /\ (/\ req'.route \in IdRoutes
               /\ \E d \in OwnedByOthers(docs, u) : d.id = req'.id) =>
                 /\ res' = DocumentNotFound
                 /\ docs' = docs ]_vars

\* A PUT of another user's document has been answered 404.
C1_Witness ==
    /\ req.route = "PUT /:id"
    /\ req.body # NoFields
    /\ res.status = 404
    /\ \E d \in docs : d.id = req.id /\ d.user # req.user /\ d.updatedAt = d.createdAt

\* A field of a request body is missing or empty.
MissingOrEmpty(body, f) == \A v \in {body[g] : g \in DOMAIN body \cap {f}} : v = ""

\* C7: a POST with a non-empty title and a non-empty content is answered 201
\* with the created document, which is stored and retrievable by its owner,
\* whether or not the body holds conversationId and messageId.
C7_PostCreates ==
    (/\ req.route = "POST /"
     /\ ~MissingOrEmpty(req.body, "title")
     /\ ~MissingOrEmpty(req.body, "content")) =>
        /\ res.status = 201
        /\ res.body \in docs
        /\ getCanvasDocumentById(res.body.id, req.user) = {res.body}

\* C8: a POST whose title or content is missing or empty is answered 400
\* 'Title and content are required' and leaves the stored documents unchanged.
C8_PostRejects ==
    [][ (/\ req'.route = "POST /"
         /\ (MissingOrEmpty(req'.body, "title")
             \/ MissingOrEmpty(req'.body, "content"))) =>
            /\ res' = [status |-> 400,
                       body |-> [error |-> "Title and content are required"]]
            /\ docs' = docs
            /\ nextId' = nextId ]_vars

\* A POST with an empty title has been answered 400 with a document stored.
C8_Witness ==
    /\ req.route = "POST /"
    /\ "title" \in DOMAIN req.body
    /\ req.body.title = ""
    /\ res.status = 400
    /\ docs # {}

\* C9: GET, PUT and DELETE /:id answer 200 exactly when a document with that
\* id owned by the requesting user is stored, and 404 'Document not found'
\* otherwise; a 404 never changes the stored documents.
C9_FoundOrNotFound ==
    [][ req'.route \in IdRoutes =>
          LET exists == \E d \in OwnedBy(docs, req'.user) : d.id = req'.id
          IN /\ exists => res'.status = 200
             /\ ~exists => res' = DocumentNotFound
             /\ res'.status = 404 => docs' = docs ]_vars

\* The document of docs with the id of d, as a set.
SameId(S, d) == {e \in S : e.id = d.id}

\* The fields a PUT with this body may change, besides those in Also.
PutMayChange(body, Also) == (DOMAIN body \cap {"title", "content"}) \cup Also

PutFrame(Also) ==
    req'.route = "PUT /:id" =>
        /\ \A d \in docs :
              /\ Cardinality(SameId(docs', d)) = 1
              /\ \A e \in SameId(docs', d) :
                    /\ \A f \in DOMAIN d \ PutMayChange(req'.body, Also) : e[f] = d[f]
                    /\ (d.id # req'.id \/ d.user # req'.user) => e = d
        /\ \A e \in docs' : SameId(docs, e) # {}
        /\ (req'.body = NoFields /\ OwnedBy(SameId(docs, [id |-> req'.id]), req'.user) # {})
              => res'.status = 200

\* C10 as stated: a PUT changes only the title and the content, and of the two
\* only those the body holds; every other field of every document keeps its
\* value; a PUT with neither field on a document of the user answers 200.
C10_PutChangesOnlyTitleAndContent == [][PutFrame({})]_vars

\* C10 as amended: the same, updatedAt being changed as well.
C10_PutFrame == [][PutFrame({"updatedAt"})]_vars

\* A PUT whose body also names an owner and a conversation has updated the
\* content of a document, another document being stored.
C10_Witness ==
    /\ req.route = "PUT /:id"
    /\ res.status = 200
    /\ "user" \in DOMAIN req.body
    /\ req.body.user # req.user
    /\ res.body \in docs
    /\ res.body.user = req.user
    /\ res.body.content = req.body.content
    /\ res.body.conversationId # req.body.conversationId
    /\ res.body.updatedAt > res.body.createdAt
    /\ Cardinality(docs) = 2

\* C11: every stored document has a non-empty title and a non-empty content.
C11_TitleAndContentNonEmpty ==
    \A d \in docs : d.title # "" /\ d.content # ""

\* The documents of a user in a conversation.
InConversation(S, u, c) == {d \in S : d.user = u /\ d.conversationId = c}

\* C12: DELETE /conversation/:conversationId removes all and only the
\* documents of the requesting user in that conversation, answers 200 with
\* deletedCount the number of documents removed, and leaves every other
\* document unchanged.
C12_DeleteByConversation ==
    [][ req'.route = "DELETE /conversation/:conversationId" =>
          LET mine == InConversation(docs, req'.user, req'.conversationId)
          IN /\ docs' = docs \ mine
             /\ res'.status = 200
             /\ res'.body.deletedCount = Cardinality(mine) ]_vars

\* A conversation of a user has been deleted, a document of the same user in
\* another conversation being kept.
C12_Witness ==
    /\ req.route = "DELETE /conversation/:conversationId"
    /\ res.body.deletedCount = 1
    /\ \E d \in docs : d.user = req.user /\ d.conversationId # req.conversationId

\* The elements of a sequence.
Range(seq) == {seq[i] : i \in 1..Len(seq)}

\* C13: GET /conversation/:conversationId answers 200 with exactly the stored
\* documents of the requesting user in that conversation, each once, the most
\* recently created first; the list is empty when there are none.
C13_ListByConversation ==
    req.route = "GET /conversation/:conversationId" =>
        LET list == res.body.documents
        IN /\ res.status = 200
           /\ Range(list) = InConversation(docs, req.user, req.conversationId)
           /\ Len(list) = Cardinality(Range(list))
           /\ \A i, j \in 1..Len(list) :
                 i < j => list[i].createdAt >= list[j].createdAt

\* Two documents of a conversation have been listed, the later one first.
C13_Witness ==
    /\ req.route = "GET /conversation/:conversationId"
    /\ Len(res.body.documents) = 2
    /\ res.body.documents[1].id > res.body.documents[2].id


(***************************************************************************)
(* Previews: truncateText and getContentPreview applied to a text and a    *)
(* maximum length.                                                         *)
(***************************************************************************)
Alphabet == {"a", " ", "<", ">"}

RECURSIVE TextsOfLength(_)
TextsOfLength(n) ==
    IF n = 0
    THEN {Empty}
    ELSE {Append(t, c) : t \in TextsOfLength(n - 1), c \in Alphabet}

Texts == UNION {TextsOfLength(n) : n \in 0..MaxText}

InitPreview ==
    /\ html \in Texts
    /\ maxLen \in 0..MaxPreview
    /\ truncated = Empty
    /\ preview = Empty
    /\ operations = <<>>
    /\ result = Empty
    /\ InitApi
    /\ InitCanvas

Truncate ==
    /\ truncated' = truncateText(html, maxLen)
    /\ UNCHANGED <<html, operations, result, docs, nextId, now, req, res,
                   maxLen, preview, canvasVars>>

Preview ==
    /\ preview' = getContentPreview(html, maxLen)
    /\ UNCHANGED <<html, operations, result, docs, nextId, now, req, res,
                   maxLen, truncated, canvasVars>>

NextPreview == Truncate \/ Preview

SpecPreview == InitPreview /\ [][NextPreview]_vars

\* C14: the string truncateText returns, and the preview getContentPreview
\* returns, are at most maxLength characters long.
C14_AtMostMaxLength ==
    /\ Len(truncated) <= maxLen
    /\ Len(preview) <= maxLen

(***************************************************************************)
(* The expand and collapse animation of a canvas card: the atoms of        *)
(* store/canvas.ts, one CanvasDocumentView per canvas document and the     *)
(* CanvasPlaceholderPanel of the side panel.                               *)
(*                                                                         *)
(* A rectangle is modelled by the measurement it comes from: "ghost" (the  *)
(* inline ghost element), "calculated" (calculateFinalTargetRect),         *)
(* "measured" (the panel's container) and "predicted"                      *)
(* (calculateCollapseTargetPosition). The container heights, which only    *)
(* drive a CSS transition, are left out.                                   *)
(*                                                                         *)
(* A handler runs as one step together with the renders and effects that   *)
(* follow it. Callbacks requested with requestAnimationFrame run in the    *)
(* next frame in the order they were requested; user events and timers     *)
(* are taken between frames. A 300 ms timer started after a callback was   *)
(* requested, or after another 300 ms timer was set, runs after it.        *)
(***************************************************************************)
otherVars == <<html, operations, result, docs, nextId, now, req, res, textVars>>

\* What the components read and write, as one record.
Canvas ==
    [expandedCanvasId |-> expandedCanvasId,
     animationPhase |-> animationPhase,
     targetRect |-> targetRect,
     inlineRect |-> inlineRect,
     collapseStartRect |-> collapseStartRect,
     hasRenderedInitialFrame |-> hasRenderedInitialFrame,
     expandStartRectRef |-> expandStartRectRef,
     expandTargetRectRef |-> expandTargetRectRef,
     collapseTargetRectRef |-> collapseTargetRectRef,
     shouldRender |-> shouldRender,
     unmountTimer |-> unmountTimer,
     observing |-> observing,
     rafQueue |-> rafQueue]

\* Animation-frame callbacks: the one handleExpand requests and the two of
\* the double requestAnimationFrame of the initial-frame effect.
StartAnimationCallback(d) == [fn |-> "startAnimation", doc |-> d]
OuterFrameCallback(d) == [fn |-> "outerFrame", doc |-> d]
InnerFrameCallback(d) == [fn |-> "innerFrame", doc |-> d]

Pending == Len(frame) + Len(rafQueue)

(***************************************************************************)
(* What a render shows.                                                    *)
(***************************************************************************)
isThisExpanded(s, d) == s.expandedCanvasId = d

\* The props the side panel group hands to CanvasPlaceholderPanel.
isExpanded(s) == s.expandedCanvasId # Null
expandedDocument(s) == s.expandedCanvasId

isThisAnimating(s, d) ==
    isThisExpanded(s, d) /\ s.animationPhase \in {"expanding", "collapsing"}

showInlineCard(s, d) == ~isThisExpanded(s, d)
showPortalCard(s, d) == isThisAnimating(s, d)
showPlaceholder(s, d) == isThisExpanded(s, d)

\* CanvasPlaceholderPanel renders nothing unless shouldRender; its container
\* holds the card when the phase is 'expanded'.
containerRef(s) == s.shouldRender
showActualCard(s) ==
    s.shouldRender /\ s.animationPhase = "expanded" /\ expandedDocument(s) # Null

NoStyle == [rect |-> Null, transition |-> Null]

getPortalStyle(s, d) ==
    IF s.animationPhase = "expanding" /\ isThisExpanded(s, d)
       /\ s.hasRenderedInitialFrame[d] /\ s.expandTargetRectRef[d] # Null
    THEN [rect |-> s.expandTargetRectRef[d], transition |-> "all"]
    ELSE IF s.animationPhase = "expanding" /\ isThisExpanded(s, d)
            /\ s.expandStartRectRef[d] # Null
    THEN [rect |-> s.expandStartRectRef[d], transition |-> "none"]
    ELSE IF s.animationPhase = "collapsing" /\ isThisExpanded(s, d)
            /\ s.hasRenderedInitialFrame[d] /\ s.collapseTargetRectRef[d] # Null
    THEN [rect |-> s.collapseTargetRectRef[d], transition |-> "all"]
    ELSE IF s.animationPhase = "collapsing" /\ isThisExpanded(s, d)
            /\ s.collapseStartRect # Null
    THEN [rect |-> s.collapseStartRect, transition |-> "none"]
    ELSE NoStyle

(***************************************************************************)
(* Handlers and callbacks: s is the state they find, the value the state   *)
(* they leave.                                                             *)
(***************************************************************************)
handleExpand(s, d) ==
    [s EXCEPT !.expandStartRectRef[d] = "ghost",
              !.collapseStartRect = Null,
              !.hasRenderedInitialFrame[d] = FALSE,
              !.rafQueue = Append(@, StartAnimationCallback(d))]

startAnimation(s, d) ==
    [s EXCEPT !.animationPhase = "expanding",
              !.expandedCanvasId = d]

calculateCollapseTargetPosition(s, d) ==
    [s EXCEPT !.inlineRect = "ghost",
              !.collapseTargetRectRef[d] = "predicted"]

\* handleCollapse of CanvasDocumentView: the inline placeholder and the
\* portal card call it.
handleCollapse(s, d) ==
    LET captured == IF s.collapseStartRect = Null /\ s.targetRect # Null
                    THEN [s EXCEPT !.collapseStartRect = s.targetRect]
                    ELSE s
    IN [calculateCollapseTargetPosition(captured, d)
           EXCEPT !.hasRenderedInitialFrame[d] = FALSE,
                  !.animationPhase = "collapsing"]

\* handleCollapse of CanvasPlaceholderPanel: the card in the panel calls it.
handleCollapseInPanel(s) ==
    LET captured == IF containerRef(s)
                    THEN [s EXCEPT !.collapseStartRect = "measured"]
                    ELSE s
    IN [captured EXCEPT !.animationPhase = "collapsing"]

\* updateTargetRect as called in a render that saw c; n is the state it
\* writes to.
TargetRectIsSet(c) ==
    /\ c.expandedCanvasId # Null
    /\ c.animationPhase \in {"expanding", "idle"} \/ containerRef(c)

updateTargetRect(c, n) ==
    IF c.expandedCanvasId = Null
    THEN n
    ELSE IF c.animationPhase \in {"expanding", "idle"}
    THEN [n EXCEPT !.targetRect = "calculated"]
    ELSE IF containerRef(c)
    THEN [n EXCEPT !.targetRect = "measured"]
    ELSE n

\* The timers of the two completion effects: an effect clears its timer
\* when its dependencies change, so the timer is set while its condition holds.
ExpandTimerSet(s, d) ==
    /\ s.animationPhase = "expanding"
    /\ s.hasRenderedInitialFrame[d]
    /\ s.targetRect # Null
    /\ isThisExpanded(s, d)

CollapseTimerSet(s, d) ==
    /\ s.animationPhase = "collapsing"
    /\ s.hasRenderedInitialFrame[d]
    /\ isThisExpanded(s, d)

expandCompletedKeepsFlag(s, d) ==
    [s EXCEPT !.animationPhase = "expanded"]

expandCompleted(s, d) ==
    [s EXCEPT !.animationPhase = "expanded",
              !.hasRenderedInitialFrame[d] = FALSE]

collapseCompletedKeepsExpandedId(s, d) ==
    [s EXCEPT !.animationPhase = "idle",
              !.expandStartRectRef[d] = Null,
              !.expandTargetRectRef[d] = Null,
              !.collapseTargetRectRef[d] = Null,
              !.collapseStartRect = Null,
              !.hasRenderedInitialFrame[d] = FALSE]

collapseCompleted(s, d) ==
    [s EXCEPT !.expandedCanvasId = Null,
              !.animationPhase = "idle",
              !.expandStartRectRef[d] = Null,
              !.expandTargetRectRef[d] = Null,
              !.collapseTargetRectRef[d] = Null,
              !.collapseStartRect = Null,
              !.hasRenderedInitialFrame[d] = FALSE]

(***************************************************************************)
(* Effects. p is the render before, c the render that was committed and n  *)
(* the state the effects of this commit have written so far. An effect     *)
(* runs when one of its dependencies differs between p and c; it reads     *)
(* the values c rendered with.                                             *)
(***************************************************************************)
PhaseOrIdChanged(p, c) ==
    \/ p.expandedCanvasId # c.expandedCanvasId
    \/ p.animationPhase # c.animationPhase

\* CanvasPlaceholderPanel: set the target rect when a canvas expands.
TargetRectEffectRuns(p, c) ==
    /\ PhaseOrIdChanged(p, c)
    /\ c.expandedCanvasId # Null
    /\ c.animationPhase \in {"expanding", "idle"}

TargetRectEffect(p, c, n) ==
    IF TargetRectEffectRuns(p, c) THEN updateTargetRect(c, n) ELSE n

\* CanvasPlaceholderPanel: observe the container and the window for resizes.
ObserverEffect(p, c, n) ==
    IF PhaseOrIdChanged(p, c)
    THEN [n EXCEPT !.observing = containerRef(c) /\ c.expandedCanvasId # Null]
    ELSE n

\* CanvasPlaceholderPanel: render the panel while a canvas is expanded, end
\* its rendering 300 ms after the canvas collapsed.
RenderEffect(p, c, n) ==
    IF isExpanded(p) # isExpanded(c) \/ p.shouldRender # c.shouldRender
    THEN IF isExpanded(c)
         THEN [n EXCEPT !.shouldRender = TRUE]
         ELSE IF c.shouldRender
         THEN [n EXCEPT !.unmountTimer = TRUE]
         ELSE n
    ELSE n

\* CanvasDocumentView of the expanded card: publish the ghost's rectangle.
InlineRectEffect(p, c, n) ==
    LET d == c.expandedCanvasId
    IN IF d # Null /\ ~isThisExpanded(p, d)
       THEN [n EXCEPT !.inlineRect = "ghost"]
       ELSE n

\* CanvasDocumentView: a collapse that the panel started has no predicted
\* target yet.
CollapseTargetEffect(p, c, n) ==
    LET d == c.expandedCanvasId
    IN IF /\ d # Null
          /\ p.animationPhase # c.animationPhase \/ ~isThisExpanded(p, d)
          /\ c.animationPhase = "collapsing"
          /\ n.collapseTargetRectRef[d] = Null
       THEN calculateCollapseTargetPosition(n, d)
       ELSE n

\* CanvasDocumentView: once the portal is rendered at its start position,
\* ask for the frame after the next one. fresh: the target rect was set anew.
InitialFrameEffect(p, c, fresh, n) ==
    LET d == c.expandedCanvasId
    IN IF d = Null
       THEN n
       ELSE IF /\ \/ p.hasRenderedInitialFrame[d] # c.hasRenderedInitialFrame[d]
                  \/ ~isThisExpanded(p, d)
                  \/ p.animationPhase # c.animationPhase
                  \/ fresh
                  \/ p.targetRect # c.targetRect
                  \/ p.collapseStartRect # c.collapseStartRect
               /\ ~c.hasRenderedInitialFrame[d]
       THEN IF c.animationPhase = "expanding"
            THEN IF c.targetRect = Null
                 THEN n
                 ELSE [n EXCEPT !.expandTargetRectRef[d] =
                                     IF @ = Null THEN c.targetRect ELSE @,
                                !.rafQueue = Append(@, OuterFrameCallback(d))]
            ELSE IF c.animationPhase = "collapsing"
            THEN IF c.collapseStartRect = Null
                 THEN n
                 ELSE [n EXCEPT !.rafQueue = Append(@, OuterFrameCallback(d))]
            ELSE n
       ELSE n

Effects(p, c, fresh) ==
    InitialFrameEffect(p, c, fresh,
      CollapseTargetEffect(p, c,
        InlineRectEffect(p, c,
          RenderEffect(p, c,
            ObserverEffect(p, c,
              TargetRectEffect(p, c, c))))))

\* Commit c, run its effects, and render again while they changed what a
\* component renders with.
RECURSIVE Render(_, _, _)
Render(p, c, fresh) ==
    LET n == Effects(p, c, fresh)
        again == TargetRectEffectRuns(p, c) \/ n.shouldRender # c.shouldRender
    IN IF again THEN Render(c, n, TargetRectEffectRuns(p, c)) ELSE n

Commit(c, fresh) ==
    LET n == Render(Canvas, c, fresh)
    IN /\ expandedCanvasId' = n.expandedCanvasId
       /\ animationPhase' = n.animationPhase
       /\ targetRect' = n.targetRect
       /\ inlineRect' = n.inlineRect
       /\ collapseStartRect' = n.collapseStartRect
       /\ hasRenderedInitialFrame' = n.hasRenderedInitialFrame
       /\ expandStartRectRef' = n.expandStartRectRef
       /\ expandTargetRectRef' = n.expandTargetRectRef
       /\ collapseTargetRectRef' = n.collapseTargetRectRef
       /\ shouldRender' = n.shouldRender
       /\ unmountTimer' = n.unmountTimer
       /\ observing' = n.observing
       /\ rafQueue' = n.rafQueue

(***************************************************************************)
(* User events.                                                            *)
(***************************************************************************)
\* A click on the expand button of an inline card; the button is disabled
\* while a canvas is expanded.
ExpandClick ==
    \E d \in CanvasIds :
        /\ frame = <<>>
        /\ Pending < MaxPending
        /\ showInlineCard(Canvas, d)
        /\ expandedCanvasId = Null
        /\ Commit(handleExpand(Canvas, d), FALSE)
        /\ UNCHANGED <<frame, otherVars>>

\* A click on the inline placeholder or on the collapse button of the
\* portal card.
CollapseClick ==
    \E d \in CanvasIds :
        /\ frame = <<>>
        /\ Pending < MaxPending
        /\ showPlaceholder(Canvas, d)
        /\ isThisExpanded(Canvas, d)
        /\ Commit(handleCollapse(Canvas, d), FALSE)
        /\ UNCHANGED <<frame, otherVars>>

\* A click on the collapse button of the card in the side panel.
CollapseClickInPanel ==
    /\ frame = <<>>
    /\ Pending < MaxPending
    /\ showActualCard(Canvas)
    /\ Commit(handleCollapseInPanel(Canvas), FALSE)
    /\ UNCHANGED <<frame, otherVars>>

\* The window is resized while the panel listens.
Resize ==
    /\ frame = <<>>
    /\ Pending < MaxPending
    /\ observing
    /\ Commit(updateTargetRect(Canvas, Canvas), TargetRectIsSet(Canvas))
    /\ UNCHANGED <<frame, otherVars>>

(***************************************************************************)
(* Animation frames.                                                       *)
(***************************************************************************)
BeginFrame ==
    /\ frame = <<>>
    /\ rafQueue # <<>>
    /\ frame' = rafQueue
    /\ rafQueue' = <<>>
    /\ UNCHANGED <<expandedCanvasId, animationPhase, targetRect, inlineRect,
                   collapseStartRect, hasRenderedInitialFrame, expandStartRectRef,
                   expandTargetRectRef, collapseTargetRectRef, shouldRender,
                   unmountTimer, observing, otherVars>>

StartAnimation ==
    /\ frame # <<>>
    /\ Head(frame).fn = "startAnimation"
    /\ frame' = Tail(frame)
    /\ Commit(startAnimation(Canvas, Head(frame).doc), FALSE)
    /\ UNCHANGED otherVars

OuterFrame ==
    /\ frame # <<>>
    /\ Head(frame).fn = "outerFrame"
    /\ frame' = Tail(frame)
    /\ Commit([Canvas EXCEPT !.rafQueue =
                   Append(@, InnerFrameCallback(Head(frame).doc))], FALSE)
    /\ UNCHANGED otherVars

InnerFrame ==
    /\ frame # <<>>
    /\ Head(frame).fn = "innerFrame"
    /\ frame' = Tail(frame)
    /\ Commit([Canvas EXCEPT !.hasRenderedInitialFrame[Head(frame).doc] = TRUE],
              FALSE)
    /\ UNCHANGED otherVars

(***************************************************************************)
(* Timers.                                                                 *)
(***************************************************************************)
ExpandComplete ==
    \E d \in CanvasIds :
        /\ Pending = 0
        /\ ~unmountTimer
        /\ ExpandTimerSet(Canvas, d)
        /\ Commit(expandCompleted(Canvas, d), FALSE)
        /\ UNCHANGED <<frame, otherVars>>

CollapseComplete ==
    \E d \in CanvasIds :
        /\ Pending = 0
        /\ ~unmountTimer
        /\ CollapseTimerSet(Canvas, d)
        /\ Commit(collapseCompleted(Canvas, d), FALSE)
        /\ UNCHANGED <<frame, otherVars>>

\* onRenderChange(false), 300 ms after the panel saw the canvas collapsed.
UnmountPanel ==
    /\ frame = <<>>
    /\ unmountTimer
    /\ Commit([Canvas EXCEPT !.shouldRender = FALSE, !.unmountTimer = FALSE],
              FALSE)
    /\ UNCHANGED <<frame, otherVars>>

InitAnimation ==
    /\ InitCanvas
    /\ html = Empty
    /\ operations = <<>>
    /\ result = Empty
    /\ InitApi
    /\ InitText

NextAnimation ==
    \/ ExpandClick
    \/ CollapseClick
    \/ CollapseClickInPanel
    \/ Resize
    \/ BeginFrame
    \/ StartAnimation
    \/ OuterFrame
    \/ InnerFrame
    \/ ExpandComplete
    \/ CollapseComplete
    \/ UnmountPanel

SpecAnimation == InitAnimation /\ [][NextAnimation]_vars

\* The browser runs every requested frame callback and every timer that is set.
SpecAnimationFair ==
    /\ InitAnimation
    /\ [][NextAnimation]_vars
    /\ WF_vars(BeginFrame)
    /\ WF_vars(StartAnimation)
    /\ WF_vars(OuterFrame)
    /\ WF_vars(InnerFrame)
    /\ WF_vars(ExpandComplete)
    /\ WF_vars(CollapseComplete)
    /\ WF_vars(UnmountPanel)

(***************************************************************************)
(* Claims about the animation.                                             *)
(***************************************************************************)
ExpandRequested(d) ==
    \E i \in 1..Len(frame \o rafQueue) :
        (frame \o rafQueue)[i] = StartAnimationCallback(d)

\* C15: after an expand click on an inline card while no canvas is expanded,
\* unless a collapse is requested, the phase eventually becomes 'expanded'
\* with that card's document as the expanded one.
C15_ExpandCompletes ==
    \A d \in CanvasIds :
        (ExpandRequested(d) /\ expandedCanvasId = Null)
            ~> \/ animationPhase = "expanded" /\ expandedCanvasId = d
               \/ animationPhase = "collapsing"

Places(d) ==
    {place \in {"inline", "portal", "panel"} :
        \/ place = "inline" /\ showInlineCard(Canvas, d)
        \/ place = "portal" /\ showPortalCard(Canvas, d)
        \/ place = "panel" /\ showActualCard(Canvas) /\ expandedDocument(Canvas) = d}

\* C16: every canvas document is shown in exactly one place: inline when it
\* is not the expanded one, in the portal when it is and the phase is
\* 'expanding' or 'collapsing', in the side panel when it is and the phase
\* is 'expanded'.
C16_ShownInExactlyOnePlace ==
    \A d \in CanvasIds :
        /\ Cardinality(Places(d)) = 1
        /\ expandedCanvasId # d => Places(d) = {"inline"}
        /\ (expandedCanvasId = d /\ animationPhase \in {"expanding", "collapsing"})
               => Places(d) = {"portal"}
        /\ (expandedCanvasId = d /\ animationPhase = "expanded")
               => Places(d) = {"panel"}

C16_Witness ==
    /\ animationPhase = "collapsing"
    /\ collapseStartRect = "measured"
    /\ expandedCanvasId = "doc2"
    /\ hasRenderedInitialFrame["doc2"]
    /\ Places("doc1") = {"inline"}
    /\ Places("doc2") = {"portal"}

\* The rectangle the animation of card d starts from.
StartStyle(s, d) ==
    [rect |-> IF s.animationPhase = "expanding"
              THEN s.expandStartRectRef[d]
              ELSE s.collapseStartRect,
     transition |-> "none"]

AnimationBegins(d) ==
    /\ showPortalCard(Canvas', d)
    /\ ~showPortalCard(Canvas, d) \/ animationPhase' # animationPhase

====
